---------------------------- MODULE Spec2Model ----------------------------
(***************************************************************************)
(* State-machine model of the commit-curation funnel of 860844175/TRUST    *)
(* (src/Code/Data_collection).  Each pipeline stage is a small process     *)
(* with its own program counter; a specification per stage draws that      *)
(* stage's loaded snapshots in its initial states.                         *)
(*                                                                         *)
(* Texts are abstracted to the structure the code reads from them: a diff  *)
(* text is the record of what the parsers extract from it, a path is its   *)
(* sequence of characters, an oracle response is its sequence of tokens.   *)
(***************************************************************************)
EXTENDS Integers, Sequences, FiniteSets, TLC

(***************************************************************************)
(* Bounds of the model.                                                    *)
(***************************************************************************)
MaxCommits == 2

(***************************************************************************)
(* Generic helpers (Python list idioms).                                   *)
(***************************************************************************)
Range(s) == {s[i] : i \in 1..Len(s)}

\* all sequences over S of length 0..n
SeqsUpTo(S, n) == UNION {[1..k -> S] : k \in 0..n}

\* a snapshot file: absent, or written with its pickled data
NoFile == [written |-> FALSE, data |-> <<>>]
File(d) == [written |-> TRUE, data |-> d]

\* [x for x in s if Test(x)]
Filter(s, Test(_)) == SelectSeq(s, Test)

\* [s[i] for i in idxs]
Pick(s, idxs) == [k \in 1..Len(idxs) |-> s[idxs[k]]]

\* [i for i in range(n) if Test(i)] (1-based)
IndicesFrom(i, n, Test(_)) == SelectSeq([k \in 1..(n - i + 1) |-> i + k - 1], Test)

\* str.endswith(suf) on character sequences
EndsWith(s, suf) ==
    /\ Len(suf) <= Len(s)
    /\ SubSeq(s, Len(s) - Len(suf) + 1, Len(s)) = suf

Min(a, b) == IF a < b THEN a ELSE b

\* Pool.imap_unordered: values are yielded in completion order
ImapUnordered(outs, completed) == [k \in 1..Len(completed) |-> outs[completed[k]]]

\* multiprocessing.Pool.imap: the k-th value yielded is the output of task k,
\* in whatever order the workers completed
ImapOrdered(outs, completed) == [k \in 1..Len(completed) |-> outs[k]]

VARIABLES
    \* ---- s0_2 filter_commit_list ----
    s02_pc,               \* "off" | "start" | "pool" | "done"
    commit_list,          \* argument: list of (repo, sha, diff)
    only_c,               \* argument
    short_commits,        \* after the length filter
    s02_completed,        \* pool: task indices in worker-completion order
    changed_files,        \* list(pool.imap(...))
    single_file_commits,  \* after the single-file filter
    s02_returned          \* the list filter_commit_list returns

varsS02 == <<s02_pc, commit_list, only_c, short_commits, s02_completed,
             changed_files, single_file_commits, s02_returned>>

VARIABLES
    \* ---- s0_2 main ----
    s02_main,       \* whether main() is the caller of filter_commit_list
    s00_snapshot,   \* s0_0_keyword_match_commits.pkl as loaded
    s02_saved       \* s0_2_security_commits_filtered.pkl

varsS02M == <<s02_main, s00_snapshot, s02_saved>>

VARIABLES
    \* ---- the LLM analysis script (s0_3) ----
    s03_pc,          \* "off" | "prompts" | "llm" | "done" | "ValueError"
    input_dataset,   \* s0_2_security_commits_filtered.pkl as loaded
    s03_start,       \* start index, inclusive, 0-based
    s03_end,         \* end index, exclusive
    batch_prompts,   \* the prompts handed to the LLM
    s03_saved        \* the results file this run writes

varsS03 == <<s03_pc, input_dataset, s03_start, s03_end, batch_prompts, s03_saved>>

VARIABLES
    \* ---- s0_3_commit_security_analysis.py: keyword harvester ----
    harv_pc,          \* "off" | "check" | "loop" | "pool" | "done" | "skipped"
    git_log,          \* the repository: keyword index -> shas `git log --grep` prints
    output_exists,    \* whether s0_0_keyword_match_commits.pkl exists
    kw,               \* index of the keyword the loop is at
    harv_tasks,       \* parallel_process_commits: the (repo, sha) tasks
    harv_outs,        \* task index -> what get_commit_content returned
    harv_completed,   \* pool: task indices in worker-completion order
    all_commit_info,  \* the list main accumulates
    harv_saved        \* the s0_0 snapshot this run writes

varsHarv == <<harv_pc, git_log, output_exists, kw, harv_tasks, harv_outs,
              harv_completed, all_commit_info, harv_saved>>

VARIABLES
    \* ---- s1_1_refine_security_commits.py ----
    s11_pc,                \* "off" | "load" | "call" | "noop" | "block" | "gates"
                           \* | "returned" | "saved" | the exception raised
    input_commits,         \* s0_2_security_commits_filtered.pkl as loaded
    llm_results,           \* s0_3_commit_security_analysis_results.pkl as loaded
    yes_commits,           \* the argument of s1_filter_commit_list
    after_noop,            \* commit_list after remove_noop_commits
    single_block,          \* commit_list after multi_extract_single_block_content
    small_prefix_commits,
    with_deletions,
    final_commits,
    s11_saved,             \* s1_1_security_commits_updated.pkl
    s11_main               \* whether main() is the caller of s1_filter_commit_list

varsS11 == <<s11_pc, input_commits, llm_results, yes_commits, after_noop,
             single_block, small_prefix_commits, with_deletions, final_commits,
             s11_saved, s11_main>>

VARIABLES
    \* ---- s2_0_finalize_security_commits.py ----
    s20_pc,               \* "off" | "load" | "pool" | "done" | "AssertionError"
    commits_updated,      \* s1_1_security_commits_updated.pkl as loaded
    blank_results,        \* s1_2_security_commits_blank_results.pkl as loaded
    commits_non_empty,
    non_empty_masks,
    masked_commits,
    bad_indices,
    single_mask_commits,
    s20_completed,        \* pool: task indices in worker-completion order
    s20_saved             \* the s2_0 snapshot

varsS20 == <<s20_pc, commits_updated, blank_results, commits_non_empty,
             non_empty_masks, masked_commits, bad_indices, single_mask_commits,
             s20_completed, s20_saved>>

VARIABLES
    \* ---- s2_2_validate_and_filter_undefined_elements.py ----
    s22_pc,           \* "off" | "load" | "select" | "dump2" | "dump1" | "dump0"
                      \* | "done" | "IndexError"
    commits0,         \* the s2_0 snapshot as loaded
    task1,            \* s2_1_task1_outputs.pkl as loaded
    task2,            \* s2_1_task2_outputs.pkl as loaded
    valid_indices,
    commits_valid,
    task1_valid,
    task2_filtered,
    s22_files         \* the three s2_2 output files

varsS22 == <<s22_pc, commits0, task1, task2, valid_indices, commits_valid,
             task1_valid, task2_filtered, s22_files>>

VARIABLES
    \* ---- a call of filter_list_of_dicts on its own ----
    fld_pc,           \* "off" | "call" | "once" | "twice"
    fld_given,        \* the list of dicts as the caller built it
    fld_data,         \* the caller's list after the calls
    fld_once,         \* filter_list_of_dicts(data)
    fld_twice         \* filter_list_of_dicts(filter_list_of_dicts(data))

varsFld == <<fld_pc, fld_given, fld_data, fld_once, fld_twice>>

VARIABLES
    \* ---- s2_1_analyze_undefined_elements.py ----
    s21_pc,           \* "off" | "start" | "task1" | "gen1" | "task2" | "gen2"
                      \* | "dump1" | "dump2" | "done"
    s21_commits,      \* the s2_0 snapshot as loaded
    llm_inits,        \* how many times LLM(...) was constructed
    s21_batches,      \* the prompt lists handed to llm.generate, in call order
    s21_outs,         \* the batch in flight: the reply to each prompt
    s21_completed,    \* the batch in flight: prompt indices in completion order
    task1_prompts,
    task1_output,
    task2_prompts,
    task2_output,
    s21_files         \* the two s2_1 output files

varsS21 == <<s21_pc, s21_commits, llm_inits, s21_batches, s21_outs, s21_completed,
             task1_prompts, task1_output, task2_prompts, task2_output, s21_files>>

vars == <<varsS02, varsS02M, varsS03, varsHarv, varsS11, varsS20, varsS22, varsFld,
          varsS21>>

\* what each stage leaves alone
notS02  == <<varsS02M, varsS03, varsHarv, varsS11, varsS20, varsS22, varsFld, varsS21>>
notS02M == <<varsS03, varsHarv, varsS11, varsS20, varsS22, varsFld, varsS21>>
notS03  == <<varsS02, varsS02M, varsHarv, varsS11, varsS20, varsS22, varsFld, varsS21>>
notHarv == <<varsS02, varsS02M, varsS03, varsS11, varsS20, varsS22, varsFld, varsS21>>
notS11  == <<varsS02, varsS02M, varsS03, varsHarv, varsS20, varsS22, varsFld, varsS21>>
notS20  == <<varsS02, varsS02M, varsS03, varsHarv, varsS11, varsS22, varsFld, varsS21>>
notS22  == <<varsS02, varsS02M, varsS03, varsHarv, varsS11, varsS20, varsFld, varsS21>>
notFld  == <<varsS02, varsS02M, varsS03, varsHarv, varsS11, varsS20, varsS22, varsS21>>
notS21  == <<varsS02, varsS02M, varsS03, varsHarv, varsS11, varsS20, varsS22, varsFld>>

(***************************************************************************)
(* s0_2: filter_commit_list                                                *)
(***************************************************************************)
max_token_length == 1000

\* paths as character sequences
PathC  == <<"a", ".", "c">>
PathCC == <<"b", ".", "c", "c">>
PathPy == <<"m", ".", "p", "y">>
Paths == <<PathC, PathCC, PathPy>>

C_EXTENSIONS == {<<".", "c">>, <<".", "c", "c">>, <<".", "c", "p", "p">>, <<".", "h">>}

\* the diff texts of the model: approximate token length and the paths named by
\* the text's "diff --git" markers, in text order
TokenLengths == {999, 1000}
HeaderLists == {Filter(Paths, LAMBDA p : p \in S) : S \in SUBSET Range(Paths)}

\* s0_2 main, line 84: the ceiling on len(c[2])
MAX_DIFF_CHARS == 1000000

\* token length and character length of a text: around the token ceiling for
\* a text under the character ceiling, and a text at the character ceiling
DiffSizes ==
    {[tok |-> t, chars |-> MAX_DIFF_CHARS - 1] : t \in TokenLengths}
    \cup {[tok |-> max_token_length, chars |-> MAX_DIFF_CHARS]}

DiffTexts02 ==
    {[tok |-> sz.tok, chars |-> sz.chars, headers |-> h] :
        sz \in DiffSizes, h \in HeaderLists}

\* compute_prompts: approximate token length of each text
compute_prompts(texts) == [i \in 1..Len(texts) |-> texts[i].tok]

\* get_change_file_name_by_text: the paths a diff text touches
get_change_file_name_by_text(diff) == diff.headers

\* the length filter passing a text of exactly max_token_length tokens
LengthFilterInclusive(cl) ==
    LET lens == compute_prompts([i \in 1..Len(cl) |-> cl[i].diff])
    IN  Pick(cl, IndicesFrom(1, Len(cl), LAMBDA i : lens[i] <= max_token_length))

\* line 36-40: length filter
LengthFilter(cl) ==
    LET lens == compute_prompts([i \in 1..Len(cl) |-> cl[i].diff])
    IN  Pick(cl, IndicesFrom(1, Len(cl), LAMBDA i : lens[i] < max_token_length))

\* line 44-49: list(pool.imap(get_change_file_name_by_text, ...))
s02_imap(sc, completed) ==
    ImapOrdered([i \in 1..Len(sc) |-> get_change_file_name_by_text(sc[i].diff)],
                completed)

\* the single-file test passing any commit that touches a file
SingleFileTestNonEmpty(cf, idx) == Len(cf[idx]) >= 1

\* line 55: the single-file test on the idx-th result
SingleFileTest(cf, idx) == Len(cf[idx]) = 1

\* line 52-56: single-file filter, appending the changed file
SingleFileFilter(sc, cf) ==
    LET keep == IndicesFrom(1, Len(sc), LAMBDA idx : SingleFileTest(cf, idx))
    IN  [k \in 1..Len(keep) |->
            [repo |-> sc[keep[k]].repo, sha |-> sc[keep[k]].sha,
             diff |-> sc[keep[k]].diff, changed_file |-> cf[keep[k]][1]]]

\* line 60-66: extension filter
CFileFilter(sfc) ==
    Filter(sfc, LAMBDA e : \E x \in C_EXTENSIONS : EndsWith(e.changed_file, x))

\* main has not run: nothing loaded, no snapshot
IdleS02M ==
    /\ s02_main = FALSE
    /\ s00_snapshot = <<>>
    /\ s02_saved = NoFile

InitS02 ==
    /\ s02_pc = "start"
    /\ IdleS02M
    /\ \E n \in 0..MaxCommits : \E d \in [1..n -> DiffTexts02] :
          commit_list = [i \in 1..n |-> [repo |-> "r", sha |-> i, diff |-> d[i]]]
    /\ only_c \in BOOLEAN
    /\ short_commits = <<>>
    /\ s02_completed = <<>>
    /\ changed_files = <<>>
    /\ single_file_commits = <<>>
    /\ s02_returned = <<>>

\* s0_2 main is started: the s0_0 snapshot it will load, and the s0_2
\* snapshot an earlier run may have left
InitS02M ==
    /\ s02_pc = "main"
    /\ s02_main = TRUE
    /\ \E n \in 0..MaxCommits : \E d \in [1..n -> DiffTexts02] :
          s00_snapshot = [i \in 1..n |-> [repo |-> "r", sha |-> i, diff |-> d[i]]]
    /\ s02_saved \in {NoFile, File(<<>>)}
    /\ commit_list = <<>>
    /\ only_c = TRUE
    /\ short_commits = <<>>
    /\ s02_completed = <<>>
    /\ changed_files = <<>>
    /\ single_file_commits = <<>>
    /\ s02_returned = <<>>

OffS02 ==
    /\ s02_pc = "off"
    /\ IdleS02M
    /\ commit_list = <<>>
    /\ only_c = TRUE
    /\ short_commits = <<>>
    /\ s02_completed = <<>>
    /\ changed_files = <<>>
    /\ single_file_commits = <<>>
    /\ s02_returned = <<>>

\* main, line 80-87: load the s0_0 snapshot, drop the huge diffs, call
\* filter_commit_list with its default arguments
S02Load ==
    /\ s02_pc = "main"
    /\ commit_list' = SelectSeq(s00_snapshot, LAMBDA c : c.diff.chars < MAX_DIFF_CHARS)
    /\ s02_pc' = "start"
    /\ UNCHANGED <<notS02M, varsS02M, only_c, short_commits, s02_completed,
                   changed_files, single_file_commits, s02_returned>>

S02Length ==
    /\ s02_pc = "start"
    /\ short_commits' = LengthFilter(commit_list)
    /\ s02_pc' = "pool"
    /\ UNCHANGED <<notS02, commit_list, only_c, s02_completed, changed_files,
                   single_file_commits, s02_returned>>

\* a pool worker finishes one of the outstanding tasks
S02WorkerDone ==
    /\ s02_pc = "pool"
    /\ \E i \in 1..Len(short_commits) :
          /\ i \notin Range(s02_completed)
          /\ s02_completed' = Append(s02_completed, i)
    /\ UNCHANGED <<notS02, s02_pc, commit_list, only_c, short_commits, changed_files,
                   single_file_commits, s02_returned>>

\* all results are in: the list is built, the gates run, the function returns
S02Gates ==
    /\ s02_pc = "pool"
    /\ Len(s02_completed) = Len(short_commits)
    /\ LET cf  == s02_imap(short_commits, s02_completed)
           sfc == SingleFileFilter(short_commits, cf)
       IN  /\ changed_files' = cf
           /\ single_file_commits' = sfc
           /\ s02_returned' = IF only_c THEN CFileFilter(sfc) ELSE sfc
    /\ s02_pc' = "done"
    /\ UNCHANGED <<notS02, commit_list, only_c, short_commits, s02_completed>>

\* main, line 87-94: the list returned is dumped over the s0_2 snapshot
S02Save ==
    /\ s02_pc = "done"
    /\ s02_main
    /\ s02_saved' = File(s02_returned)
    /\ s02_pc' = "saved"
    /\ UNCHANGED <<notS02M, s02_main, s00_snapshot, commit_list, only_c, short_commits,
                   s02_completed, changed_files, single_file_commits, s02_returned>>

(***************************************************************************)
(* s0_3_commit_security_analysis.py: the keyword harvester (writes the     *)
(* s0_0 snapshot)                                                          *)
(***************************************************************************)
\* SECURITY_RELATED_KEYWORDS, cut to two entries
SECURITY_RELATED_KEYWORDS == <<"overflow", "fix">>

Shas == <<1, 2>>
\* what `git log --grep` can print: the matching commits, in history order
LogOutputs ==
    {[i \in 1..Len(ids) |-> [sha |-> ids[i], block |-> "commit"]] :
        ids \in {SelectSeq(Shas, LAMBDA x : x \in S) : S \in SUBSET Range(Shas)}}

\* split_commit_content and extract_commit_id: the sha of each commit block
extract_commit_ids(output) == [i \in 1..Len(output) |-> output[i].sha]

\* get_commit_content: (repo, sha, stdout of git show); an empty stdout is a
\* failed call
ShowOutputs(task) ==
    {[repo |-> task.repo, sha |-> task.sha, content |-> txt] :
        txt \in {"", "text"}}

Pending == [repo |-> "", sha |-> 0, content |-> "(pending)"]

\* line 119: tasks = [(reponame, cid) for cid in commit_id_list]
HarvTasks(ids) == [i \in 1..Len(ids) |-> [repo |-> "r", sha |-> ids[i]]]

\* line 120-121: results = list(pool.imap(get_commit_content, tasks))
harv_imap(outs, completed) == ImapOrdered(outs, completed)

\* a variant that assigns the keyword's results instead of extending
ExtendAssign(info, commit_data) == commit_data

\* line 176: all_commit_info.extend(commit_data)
Extend(info, commit_data) == info \o commit_data

\* line 179: drop the empty results
NonEmptyInfo(info) == SelectSeq(info, LAMBDA t : t.content # "")

\* a variant that keeps the list as it is
UniqueInfoKeepAll(info) == {info}

\* line 180: list(set(...)): the lists that hold each element of the set
\* once, in whichever order the set iterates
UniqueInfo(info) ==
    {u \in [1..Cardinality(Range(info)) -> Range(info)] : Range(u) = Range(info)}

InitHarv ==
    /\ harv_pc = "check"
    /\ git_log \in [1..Len(SECURITY_RELATED_KEYWORDS) -> LogOutputs]
    /\ output_exists \in BOOLEAN
    /\ kw = 1
    /\ harv_tasks = <<>>
    /\ harv_outs = <<>>
    /\ harv_completed = <<>>
    /\ all_commit_info = <<>>
    /\ harv_saved = NoFile

OffHarv ==
    /\ harv_pc = "off"
    /\ git_log = <<>>
    /\ output_exists = FALSE
    /\ kw = 1
    /\ harv_tasks = <<>>
    /\ harv_outs = <<>>
    /\ harv_completed = <<>>
    /\ all_commit_info = <<>>
    /\ harv_saved = NoFile

\* line 164-166: skip when the output file exists
HarvCheck ==
    /\ harv_pc = "check"
    /\ harv_pc' = IF output_exists THEN "skipped" ELSE "loop"
    /\ UNCHANGED <<notHarv, git_log, output_exists, kw, harv_tasks, harv_outs,
                   harv_completed, all_commit_info, harv_saved>>

\* line 170-175: one keyword's history query, and the tasks for its commits
HarvQuery ==
    /\ harv_pc = "loop"
    /\ kw <= Len(SECURITY_RELATED_KEYWORDS)
    /\ harv_tasks' = HarvTasks(extract_commit_ids(git_log[kw]))
    /\ harv_outs' = [i \in 1..Len(git_log[kw]) |-> Pending]
    /\ harv_completed' = <<>>
    /\ harv_pc' = "pool"
    /\ UNCHANGED <<notHarv, git_log, output_exists, kw, all_commit_info, harv_saved>>

\* a pool worker finishes one git show
HarvWorkerDone ==
    /\ harv_pc = "pool"
    /\ \E i \in 1..Len(harv_tasks) :
          /\ i \notin Range(harv_completed)
          /\ \E r \in ShowOutputs(harv_tasks[i]) :
                harv_outs' = [harv_outs EXCEPT ![i] = r]
          /\ harv_completed' = Append(harv_completed, i)
    /\ UNCHANGED <<notHarv, harv_pc, git_log, output_exists, kw, harv_tasks,
                   all_commit_info, harv_saved>>

\* line 176: all_commit_info.extend(commit_data), next keyword
HarvExtend ==
    /\ harv_pc = "pool"
    /\ Len(harv_completed) = Len(harv_tasks)
    /\ all_commit_info' =
          Extend(all_commit_info, harv_imap(harv_outs, harv_completed))
    /\ kw' = kw + 1
    /\ harv_pc' = "loop"
    /\ UNCHANGED <<notHarv, git_log, output_exists, harv_tasks, harv_outs,
                   harv_completed, harv_saved>>

\* line 178-185: filter, deduplicate, dump
HarvSave ==
    /\ harv_pc = "loop"
    /\ kw > Len(SECURITY_RELATED_KEYWORDS)
    /\ \E unique_info \in UniqueInfo(NonEmptyInfo(all_commit_info)) :
          harv_saved' = File(unique_info)
    /\ output_exists' = TRUE
    /\ harv_pc' = "done"
    /\ UNCHANGED <<notHarv, git_log, kw, harv_tasks, harv_outs, harv_completed,
                   all_commit_info>>


(***************************************************************************)
(* s1_1_refine_security_commits.py                                         *)
(*                                                                         *)
(* A diff text is the record of its hunks and of its Date: line.  A hunk   *)
(* is the sequence of its diff blocks (maximal runs of changed lines); a   *)
(* block records the function enclosing it and whether it removes lines.   *)
(* A file content maps each function to its text.                          *)
(***************************************************************************)
CUTOFF_YEAR == 2023
MAX_PREFIX_TOKENS == 1000

Fns == {1, 2}
Blk(f, r) == [fn |-> f, removed |-> r]

\* the hunk lists of the model's diffs
HunksNone       == <<>>
HunksOne        == << <<Blk(1, TRUE)>> >>
HunksOneAdd     == << <<Blk(1, FALSE)>> >>
HunksTwoBlocks  == << <<Blk(1, TRUE), Blk(1, TRUE)>> >>
HunksSpanning   == << <<Blk(1, TRUE), Blk(2, TRUE)>> >>
HunksSameFn     == << <<Blk(1, FALSE)>>, <<Blk(1, TRUE)>> >>
HunksTwoFns     == << <<Blk(1, TRUE)>>, <<Blk(2, TRUE)>> >>

\* the Date: line of a commit text: absent, present but not in the format
\* "%a %b %d %H:%M:%S %Y %z", or present with its year
DateLine(present, parses, year) == [present |-> present, parses |-> parses, year |-> year]
NoDate == DateLine(FALSE, FALSE, 0)
BadDate == DateLine(TRUE, FALSE, 0)
Dated(year) == DateLine(TRUE, TRUE, year)
Dates == {NoDate, BadDate, Dated(CUTOFF_YEAR - 1), Dated(CUTOFF_YEAR)}

\* a commit as s1_1 loads it, with the file contents the VCS holds for it:
\* `same` are the functions whose text the commit leaves identical
Commit11(hunks, same, tok, date) ==
    [repo |-> "r",
     diff |-> [hunks |-> hunks, date |-> date],
     changed_file |-> PathC,
     vcs |-> [prefix |-> [f \in Fns |-> [body |-> "old", tok |-> tok]],
              fix    |-> [f \in Fns |-> [body |-> IF f \in same THEN "old" ELSE "new",
                                         tok |-> tok]]]]

CodeChanges ==
    {<<HunksNone, {}>>}
    \cup ({HunksOne, HunksOneAdd, HunksTwoBlocks, HunksSameFn} \X {{}, {1}})
    \cup ({HunksSpanning, HunksTwoFns} \X {{}, {1}, {2}})

\* prefix-function sizes and dates: every date on a small function, and a
\* function at the size ceiling
SizesAndDates ==
    ({MAX_PREFIX_TOKENS - 1} \X Dates)
    \cup {<<MAX_PREFIX_TOKENS, Dated(CUTOFF_YEAR - 1)>>}

Commits11 ==
    {Commit11(cc[1], cc[2], sd[1], sd[2]) : cc \in CodeChanges, sd \in SizesAndDates}

\* the commits of the main() runs: a genuine fix and a no-op
MainCommits11 ==
    {Commit11(HunksOne, same, MAX_PREFIX_TOKENS - 1, Dated(CUTOFF_YEAR - 1)) :
        same \in {{}, {1}}}

WithSha(cs) == [i \in 1..Len(cs) |-> [sha |-> i] @@ cs[i]]

\* oracle responses, as token sequences
IntentResponses ==
    {<<"Answer:", "yes">>, <<"Answer:", "no">>, <<"Answer:", "cannot", "decide">>,
     <<"Yes,", "but", "Answer:", "no">>}

\* 'yes' in res.lower()
ContainsYes(res) == \E k \in 1..Len(res) : res[k] \in {"yes", "Yes,"}

\* line 133-134
YesCommits(ic, lr) == Pick(ic, IndicesFrom(1, Len(lr), LAMBDA i : ContainsYes(lr[i])))

\* multi_add_prefix_fix_content: the file before and after the commit
multi_add_prefix_fix_content(cl) ==
    [i \in 1..Len(cl) |->
        [prefix_content |-> cl[i].vcs.prefix, fix_content |-> cl[i].vcs.fix] @@ cl[i]]

\* extract_hunks: one header per hunk; a header locates the function that
\* encloses the start of its hunk
extract_hunks(diff) == [h \in 1..Len(diff.hunks) |-> [fn |-> diff.hunks[h][1].fn]]

\* split_diff_by_blocks: the diff blocks of all hunks, in text order
RECURSIVE Flatten(_)
Flatten(ss) == IF ss = <<>> THEN <<>> ELSE Head(ss) \o Flatten(Tail(ss))
split_diff_by_blocks(diff) == Flatten(diff.hunks)

\* extract_function: the text of the function the header locates
extract_function(content, header) == content[header.fn]

\* line 69-78: the block loop of one entry
RECURSIVE BlockLoop(_, _, _, _)
BlockLoop(entry, hunk_headers, diff_blocks, idx) ==
    IF idx > Len(diff_blocks) THEN "keep"
    ELSE IF idx > Len(hunk_headers) THEN "IndexError"
    ELSE IF extract_function(entry.prefix_content, hunk_headers[idx])
            = extract_function(entry.fix_content, hunk_headers[idx])
         THEN "noop"
         ELSE BlockLoop(entry, hunk_headers, diff_blocks, idx + 1)

NoopOutcome(entry) ==
    BlockLoop(entry, extract_hunks(entry.diff), split_diff_by_blocks(entry.diff), 1)

\* line 71: whether the lookup hunk_headers[idx] raises for some entry
NoopRaises(commits) ==
    \E i \in 1..Len(commits) : NoopOutcome(commits[i]) = "IndexError"

\* line 77: the test that keeps an entry
NoopKeeps(entry) == NoopOutcome(entry) = "keep"

\* a variant of the block loop that appends the entry once for every block
\* it passes before a no-op block or the end
RECURSIVE PassedBlocks(_, _, _, _)
PassedBlocks(entry, hunk_headers, diff_blocks, idx) ==
    IF idx > Len(diff_blocks) \/ idx > Len(hunk_headers) THEN 0
    ELSE IF extract_function(entry.prefix_content, hunk_headers[idx])
            = extract_function(entry.fix_content, hunk_headers[idx])
         THEN 0
         ELSE 1 + PassedBlocks(entry, hunk_headers, diff_blocks, idx + 1)

RemoveNoopAppendPerBlock(commits) ==
    Flatten([i \in 1..Len(commits) |->
        [k \in 1..PassedBlocks(commits[i], extract_hunks(commits[i].diff),
                               split_diff_by_blocks(commits[i].diff), 1)
            |-> commits[i]]])

\* line 57-80: the list returned, when no lookup raises
remove_noop_commits(commits) == SelectSeq(commits, NoopKeeps)

\* extract_prefix_block_function: the function blocks of an entry, one per diff
\* block, each resolved to its own enclosing function
extract_prefix_block_function(cl) ==
    [i \in 1..Len(cl) |->
        [blocks |-> [k \in 1..Len(split_diff_by_blocks(cl[i].diff)) |->
                        split_diff_by_blocks(cl[i].diff)[k].fn]] @@ cl[i]]

\* multi_extract_single_block_content: blocks resolving to the same function
\* are one block; an entry with exactly one is kept, with the function's text
\* before and after the fix
multi_extract_single_block_content(cl) ==
    LET one == SelectSeq(cl, LAMBDA e : Cardinality(Range(e.blocks)) = 1)
    IN  [i \in 1..Len(one) |->
            [prefix_function |-> one[i].prefix_content[one[i].blocks[1]],
             fix_function |-> one[i].fix_content[one[i].blocks[1]]] @@ one[i]]

\* the single-block step counting hunks where it should count functions
SingleBlockStepByHunk(cl) ==
    multi_extract_single_block_content(
        SelectSeq(extract_prefix_block_function(cl), LAMBDA e : Len(e.diff.hunks) = 1))

\* line 86-89
SingleBlockStep(cl) ==
    multi_extract_single_block_content(extract_prefix_block_function(cl))

\* line 92-96
SmallPrefix(cl) ==
    LET lengths == [i \in 1..Len(cl) |-> cl[i].prefix_function.tok]
    IN  Pick(cl, IndicesFrom(1, Len(cl), LAMBDA i : lengths[i] < MAX_PREFIX_TOKENS))

\* check_only_add_commit: the diff text removes no line
check_only_add_commit(diff) ==
    \A h \in 1..Len(diff.hunks) : \A b \in 1..Len(diff.hunks[h]) :
        ~diff.hunks[h][b].removed

\* the deletion gate letting every commit through
WithDeletionsNoGate(cl) == cl

\* line 99-101
WithDeletions(cl) == SelectSeq(cl, LAMBDA c : ~check_only_add_commit(c.diff))

\* line 11-29: None without a Date: line, else the year strptime parses, or
\* the ValueError it raises
catch_commit_datetime(diff) ==
    [raises |-> diff.date.present /\ ~diff.date.parses,
     none   |-> ~diff.date.present,
     year   |-> diff.date.year]

\* the date test with the cutoff year itself admitted
DateTestInclusive(r) == ~r.none /\ r.year <= CUTOFF_YEAR

\* line 106: the test of the date filter, on what catch_commit_datetime returned
DateTest(r) == ~r.none /\ r.year < CUTOFF_YEAR

\* line 104-107: whether the comprehension raises
DateRaises(cl) == \E i \in 1..Len(cl) : catch_commit_datetime(cl[i].diff).raises

\* line 104-107: the filtered list, when nothing raises
DateGate(cl) == SelectSeq(cl, LAMBDA c : DateTest(catch_commit_datetime(c.diff)))

\* s1_filter_commit_list has computed nothing yet
FreshS11 ==
    /\ after_noop = <<>>
    /\ single_block = <<>>
    /\ small_prefix_commits = <<>>
    /\ with_deletions = <<>>
    /\ final_commits = <<>>

IdleS11 ==
    /\ FreshS11
    /\ s11_saved = NoFile

\* the s1_1 snapshot before a run of main(): none, or one an earlier run left
PriorS11Snapshots == {NoFile, File(<<>>)}

\* main() is started on the two snapshots it loads; an earlier run may have
\* left its output snapshot
InitS11 ==
    /\ s11_pc = "load"
    /\ s11_main = TRUE
    /\ \E n \in 0..MaxCommits : \E cs \in [1..n -> MainCommits11] :
          input_commits = WithSha(cs)
    /\ llm_results \in SeqsUpTo(IntentResponses, MaxCommits)
    /\ yes_commits = <<>>
    /\ FreshS11
    /\ s11_saved \in PriorS11Snapshots

\* s1_filter_commit_list is called on a commit list
InitS11F ==
    /\ s11_pc = "call"
    /\ s11_main = FALSE
    /\ input_commits = <<>>
    /\ llm_results = <<>>
    /\ \E n \in 0..MaxCommits : \E cs \in [1..n -> Commits11] :
          yes_commits = WithSha(cs)
    /\ IdleS11

OffS11 ==
    /\ s11_pc = "off"
    /\ s11_main = FALSE
    /\ input_commits = <<>>
    /\ llm_results = <<>>
    /\ yes_commits = <<>>
    /\ IdleS11

\* line 125-127: main is started after the LLM script, and loads the s0_2
\* snapshot (the script's input_dataset) and the unsuffixed results file
S11Open ==
    /\ s11_pc = "off"
    /\ s03_pc = "done"
    /\ s03_saved.name = <<>>
    /\ input_commits' = input_dataset
    /\ llm_results' = s03_saved.data
    /\ s11_main' = TRUE
    /\ s11_pc' = "load"
    /\ UNCHANGED <<notS11, yes_commits, after_noop, single_block, small_prefix_commits,
                   with_deletions, final_commits, s11_saved>>

\* line 125-134: load, assert, select
S11Load ==
    /\ s11_pc = "load"
    /\ IF Len(input_commits) = Len(llm_results)
       THEN /\ yes_commits' = YesCommits(input_commits, llm_results)
            /\ s11_pc' = "call"
       ELSE /\ yes_commits' = yes_commits
            /\ s11_pc' = "AssertionError"
    /\ UNCHANGED <<notS11, s11_main, input_commits, llm_results, after_noop, single_block,
                   small_prefix_commits, with_deletions, final_commits, s11_saved>>

\* line 55-83
S11Noop ==
    /\ s11_pc = "call"
    /\ LET cl == multi_add_prefix_fix_content(yes_commits)
       IN  IF NoopRaises(cl)
           THEN /\ s11_pc' = "IndexError"
                /\ after_noop' = after_noop
           ELSE /\ s11_pc' = "noop"
                /\ after_noop' = remove_noop_commits(cl)
    /\ UNCHANGED <<notS11, s11_main, input_commits, llm_results, yes_commits, single_block,
                   small_prefix_commits, with_deletions, final_commits, s11_saved>>

\* line 86-89
S11SingleBlock ==
    /\ s11_pc = "noop"
    /\ single_block' = SingleBlockStep(after_noop)
    /\ s11_pc' = "block"
    /\ UNCHANGED <<notS11, s11_main, input_commits, llm_results, yes_commits, after_noop,
                   small_prefix_commits, with_deletions, final_commits, s11_saved>>

\* line 92-101
S11SizeDeletion ==
    /\ s11_pc = "block"
    /\ small_prefix_commits' = SmallPrefix(single_block)
    /\ with_deletions' = WithDeletions(SmallPrefix(single_block))
    /\ s11_pc' = "gates"
    /\ UNCHANGED <<notS11, s11_main, input_commits, llm_results, yes_commits, after_noop,
                   single_block, final_commits, s11_saved>>

\* line 104-109
S11Date ==
    /\ s11_pc = "gates"
    /\ IF DateRaises(with_deletions)
       THEN /\ s11_pc' = "ValueError"
            /\ final_commits' = final_commits
       ELSE /\ s11_pc' = "returned"
            /\ final_commits' = DateGate(with_deletions)
    /\ UNCHANGED <<notS11, s11_main, input_commits, llm_results, yes_commits, after_noop,
                   single_block, small_prefix_commits, with_deletions, s11_saved>>

\* line 140-142, in a run of main()
S11Save ==
    /\ s11_pc = "returned"
    /\ s11_main
    /\ s11_saved' = File(final_commits)
    /\ s11_pc' = "saved"
    /\ UNCHANGED <<notS11, s11_main, input_commits, llm_results, yes_commits, after_noop,
                   single_block, small_prefix_commits, with_deletions, final_commits>>

(***************************************************************************)
(* The LLM analysis script (step s0_3), second part of                     *)
(* s0_2_filter_security_commits.py                                         *)
(***************************************************************************)
\* input_dataset[start:end], for 0 <= start and 0 <= end
Slice(ds, start, end) ==
    [k \in 1..(IF Min(end, Len(ds)) > start THEN Min(end, Len(ds)) - start ELSE 0)
        |-> ds[start + k]]

\* the number of fields of a record, the length of the tuple it stands for
Arity(rec) == Cardinality(DOMAIN rec)

\* line 172: `for repo, sha, diff_text in ...` raises for a tuple that has
\* not three fields
UnpackRaises(ds) == \E k \in 1..Len(ds) : Arity(ds[k]) # 3

\* line 171-177: one prompt per record of the slice, holding its diff text
BatchPrompts(ds) == [k \in 1..Len(ds) |-> [prompt_of |-> ds[k].sha, diff |-> ds[k].diff]]

\* the unsuffixed name given to every slice that starts at 0
ResultsNameFromStart(ds, start, end) ==
    IF start = 0 THEN <<>> ELSE <<start, end>>

\* line 195-198: the name of the results file, <<>> for the unsuffixed one
ResultsName(ds, start, end) ==
    IF start = 0 /\ end = Len(ds) THEN <<>> ELSE <<start, end>>

NoResults == [written |-> FALSE, name |-> <<>>, data |-> <<>>]

IdleS03 ==
    /\ batch_prompts = <<>>
    /\ s03_saved = NoResults

OffS03 ==
    /\ s03_pc = "off"
    /\ input_dataset = <<>>
    /\ s03_start = 0
    /\ s03_end = 0
    /\ IdleS03

\* the records the script may be given: the (repo, sha, diff text) tuples its
\* docstring names, and the tuples filter_commit_list returns
DatasetRecords ==
    {[repo |-> "r", diff |-> "text"],
     [repo |-> "r", diff |-> "text", changed_file |-> PathC]}

\* --start and --end: absent, or numbers
SliceArgs(n) == {<<0, n>>} \cup ((0..MaxCommits) \X (0..MaxCommits))

\* the script is started on a dataset
InitS03 ==
    /\ s03_pc = "prompts"
    /\ \E n \in 0..MaxCommits : \E rs \in [1..n -> DatasetRecords] :
          /\ input_dataset = WithSha(rs)
          /\ \E se \in SliceArgs(n) : s03_start = se[1] /\ s03_end = se[2]
    /\ IdleS03

\* line 224-230: the script is started after s0_2 main and loads its snapshot
S03Open ==
    /\ s03_pc = "off"
    /\ s02_pc = "saved"
    /\ input_dataset' = s02_saved.data
    /\ \E se \in SliceArgs(Len(s02_saved.data)) :
          s03_start' = se[1] /\ s03_end' = se[2]
    /\ s03_pc' = "prompts"
    /\ UNCHANGED <<notS03, batch_prompts, s03_saved>>

\* line 171-177
S03Prompts ==
    /\ s03_pc = "prompts"
    /\ LET slice == Slice(input_dataset, s03_start, s03_end)
       IN  IF UnpackRaises(slice)
           THEN /\ s03_pc' = "ValueError"
                /\ batch_prompts' = batch_prompts
           ELSE /\ s03_pc' = "llm"
                /\ batch_prompts' = BatchPrompts(slice)
    /\ UNCHANGED <<notS03, input_dataset, s03_start, s03_end, s03_saved>>

\* line 180-204: one batch call of the LLM, and the dump of its answers
S03Generate ==
    /\ s03_pc = "llm"
    /\ \E results \in [1..Len(batch_prompts) -> IntentResponses] :
          s03_saved' = [written |-> TRUE,
                        name |-> ResultsName(input_dataset, s03_start, s03_end),
                        data |-> results]
    /\ s03_pc' = "done"
    /\ UNCHANGED <<notS03, input_dataset, s03_start, s03_end, batch_prompts>>

(***************************************************************************)
(* s2_0_finalize_security_commits.py                                       *)
(*                                                                         *)
(* A mask result is the empty string or a mask; applying a mask to its     *)
(* commit either fails to locate the span or yields a snippet, a token     *)
(* sequence holding some number of placeholders.                           *)
(***************************************************************************)
MASK_TOKEN == "<MASK_"
Mask(found, n) == [empty |-> FALSE, found |-> found, placeholders |-> n]
EmptyMask == [empty |-> TRUE, found |-> FALSE, placeholders |-> 0]
MaskResults == {EmptyMask, Mask(FALSE, 0), Mask(TRUE, 0), Mask(TRUE, 1), Mask(TRUE, 2)}

\* what the identifier scan finds around the mask of a commit
Undefs == {[prefix |-> {}, fix |-> {}], [prefix |-> {"foo"}, fix |-> {}],
           [prefix |-> {}, fix |-> {"foo"}]}
Commits20 == [repo : {"r"}, undef : Undefs]

\* the snippet a located mask produces
Snippet(mask) == <<"code">> \o [k \in 1..mask.placeholders |-> MASK_TOKEN] \o <<"code">>

\* str.count on token sequences
Count(snippet, tok) == Cardinality({k \in 1..Len(snippet) : snippet[k] = tok})

\* zip(a, b): the positions both lists have
ZipLen(a, b) == Min(Len(a), Len(b))

\* line 34
NonEmptyMasks(br) == SelectSeq(br, LAMBDA res : ~res.empty)

\* line 36-38
CommitsNonEmpty(cu, br) ==
    Pick(cu, IndicesFrom(1, ZipLen(cu, br), LAMBDA i : ~br[i].empty))

\* add_mask_to_list: the entries whose span was located, each with its masked
\* snippet as last field, and the indices of the others
BadIndices(cs, ms) == {i \in 1..ZipLen(cs, ms) : ~ms[i].found}
add_mask_to_list(cs, ms) ==
    LET good == IndicesFrom(1, ZipLen(cs, ms), LAMBDA i : ms[i].found)
    IN  [k \in 1..Len(good) |->
            [mask_snippet |-> Snippet(ms[good[k]])] @@ cs[good[k]]]

\* line 45-50: the length of a list without its bad indices
CleanLen(list, bad) == Cardinality({i \in 1..Len(list) : i \notin bad})

\* the single-mask test passing any snippet that holds the token
SingleMaskTestAtLeastOne(entry) == Count(entry.mask_snippet, MASK_TOKEN) >= 1

\* line 58: the test of the single-mask filter
SingleMaskTest(entry) == Count(entry.mask_snippet, MASK_TOKEN) = 1

\* line 56-59
SingleMask(mc) == SelectSeq(mc, SingleMaskTest)

\* get_undefined_element_to_list: the entry with the undefined elements of its
\* prefix and fix snippets
get_undefined_element_to_list(entry) ==
    [undefined_prefix |-> entry.undef.prefix, undefined_fix |-> entry.undef.fix]
    @@ entry

\* line 62-67: list(pool.imap(get_undefined_element_to_list, ...))
s20_imap(smc, completed) ==
    ImapOrdered([i \in 1..Len(smc) |-> get_undefined_element_to_list(smc[i])],
                completed)

\* line 70-73
FinalEntries(enriched) ==
    SelectSeq(enriched, LAMBDA e : e.undefined_fix # {} \/ e.undefined_prefix # {})

IdleS20 ==
    /\ commits_non_empty = <<>>
    /\ non_empty_masks = <<>>
    /\ masked_commits = <<>>
    /\ bad_indices = {}
    /\ single_mask_commits = <<>>
    /\ s20_completed = <<>>
    /\ s20_saved = NoFile

InitS20 ==
    /\ s20_pc = "load"
    /\ \E n \in 0..MaxCommits : \E cs \in [1..n -> Commits20] :
          commits_updated = WithSha(cs)
    /\ blank_results \in SeqsUpTo(MaskResults, MaxCommits)
    /\ IdleS20

OffS20 ==
    /\ s20_pc = "off"
    /\ commits_updated = <<>>
    /\ blank_results = <<>>
    /\ IdleS20

\* line 30-59
S20Mask ==
    /\ s20_pc = "load"
    /\ LET nem == NonEmptyMasks(blank_results)
           cne == CommitsNonEmpty(commits_updated, blank_results)
           mc  == add_mask_to_list(cne, nem)
           bad == BadIndices(cne, nem)
       IN  /\ non_empty_masks' = nem
           /\ commits_non_empty' = cne
           /\ masked_commits' = mc
           /\ bad_indices' = bad
           /\ IF CleanLen(cne, bad) = CleanLen(nem, bad)
                 /\ CleanLen(nem, bad) = Len(mc)
              THEN /\ single_mask_commits' = SingleMask(mc)
                   /\ s20_pc' = "pool"
              ELSE /\ single_mask_commits' = single_mask_commits
                   /\ s20_pc' = "AssertionError"
    /\ UNCHANGED <<notS20, commits_updated, blank_results, s20_completed, s20_saved>>

\* a pool worker finishes one entry
S20WorkerDone ==
    /\ s20_pc = "pool"
    /\ \E i \in 1..Len(single_mask_commits) :
          /\ i \notin Range(s20_completed)
          /\ s20_completed' = Append(s20_completed, i)
    /\ UNCHANGED <<notS20, s20_pc, commits_updated, blank_results, commits_non_empty,
                   non_empty_masks, masked_commits, bad_indices, single_mask_commits,
                   s20_saved>>

\* line 70-79
S20Save ==
    /\ s20_pc = "pool"
    /\ Len(s20_completed) = Len(single_mask_commits)
    /\ s20_saved' = File(FinalEntries(s20_imap(single_mask_commits, s20_completed)))
    /\ s20_pc' = "done"
    /\ UNCHANGED <<notS20, commits_updated, blank_results, commits_non_empty,
                   non_empty_masks, masked_commits, bad_indices, single_mask_commits,
                   s20_completed>>

(***************************************************************************)
(* s2_2_validate_and_filter_undefined_elements.py                          *)
(*                                                                         *)
(* A Task-2 response is the sequence of the parts its fence markers        *)
(* separate (what txt.split('```') returns); the empty text is <<>>.  A    *)
(* part is the text of a well-formed body, modelled by the body itself, or *)
(* other text.                                                             *)
(***************************************************************************)
MaxParts == 3

Id_foo    == <<"f", "o", "o", "_", "x">>
Id_memcpy == <<"m", "e", "m", "c", "p", "y">>
Id_i      == <<"i">>
Id_fd     == <<"f", "d">>
Id_NULL   == <<"N", "U", "L", "L">>

\* COMMON_BLACKLIST, cut to two entries
COMMON_BLACKLIST == {Id_memcpy, Id_NULL}

\* the values of a parsed dict: a list of names, or anything else, which
\* the model reduces to a text
ListValue(items) == [is_list |-> TRUE, items |-> items, text |-> <<>>]
OtherValue(text) == [is_list |-> FALSE, items |-> <<>>, text |-> text]

Body(fs, vs, ss) ==
    [Functions |-> ListValue(fs), Variables |-> ListValue(vs),
     Structures |-> ListValue(ss)]
WellFormed(body) == [wellformed |-> TRUE, body |-> body]
Other == [wellformed |-> FALSE, body |-> Body(<<>>, <<>>, <<>>)]
BodyUseful == Body(<<Id_memcpy, Id_foo>>, <<Id_i>>, <<>>)
BodyCommon == Body(<<Id_memcpy>>, <<Id_fd, Id_NULL>>, <<>>)
PartTexts == {Other, WellFormed(BodyUseful), WellFormed(BodyCommon)}

\* the response of n parts whose last-but-one part (its only part, for n = 1)
\* is c
Response(n, c) == [k \in 1..n |-> IF k = n - 1 \/ n = 1 THEN c ELSE Other]
\* the response that opens a fence before c and never closes it
Unclosed(c) == <<Other, c>>
Task2Responses ==
    {<<>>} \cup {Response(n, c) : n \in 1..MaxParts, c \in PartTexts}
           \cup {Unclosed(c) : c \in PartTexts}

\* transform_str_to_list: the three groups of a well-formed body; other text
\* raises
Parseable(part) == part.wellformed
transform_str_to_list(part) == part.body

\* the test on the number of parts, one part short
TooFewPartsOffByOne(parts) == Len(parts) < 2

\* line 93: the test on the number of parts
TooFewParts(parts) == Len(parts) < 3

\* line 88-100: whether index idx is appended to valid_indices
ValidResponse(txt) ==
    /\ txt # <<>>
    /\ ~TooFewParts(txt)
    /\ Parseable(txt[Len(txt) - 1])

\* line 87-100
ValidIndices(t2) == IndicesFrom(1, Len(t2), LAMBDA idx : ValidResponse(t2[idx]))

\* the element filter asking for more than three characters
FilterElementsOverThree(elements) ==
    SelectSeq(elements, LAMBDA item : Len(item) > 3 /\ item \notin COMMON_BLACKLIST)

\* line 45-48
filter_elements(elements) ==
    SelectSeq(elements, LAMBDA item : Len(item) > 2 /\ item \notin COMMON_BLACKLIST)

\* line 54: isinstance(v, list)
IsList(v) == v.is_list

\* line 50-59: a new list of new dicts, the list values filtered, the others
\* as they are
filter_list_of_dicts(data) ==
    [i \in 1..Len(data) |->
        [k \in DOMAIN data[i] |->
            IF IsList(data[i][k])
            THEN ListValue(filter_elements(data[i][k].items))
            ELSE data[i][k]]]

\* the dicts of a direct call: names at and around the length limit and a
\* blacklisted one, in lists of up to MaxItems names, alone or beside a value
\* that is not a list
MaxItems == 2
Id_buf == <<"b", "u", "f">>
FldNames == {Id_memcpy, Id_fd, Id_buf}
FldLists == {ListValue(l) : l \in SeqsUpTo(FldNames, MaxItems)}
FldDicts ==
    {[Functions |-> v] : v \in FldLists}
    \cup {[Functions |-> v, note |-> OtherValue(Id_fd)] : v \in FldLists}

\* filter_list_of_dicts is called on a list of dicts
InitFld ==
    /\ fld_pc = "call"
    /\ fld_given \in SeqsUpTo(FldDicts, MaxCommits)
    /\ fld_data = fld_given
    /\ fld_once = <<>>
    /\ fld_twice = <<>>

OffFld ==
    /\ fld_pc = "off"
    /\ fld_given = <<>>
    /\ fld_data = <<>>
    /\ fld_once = <<>>
    /\ fld_twice = <<>>

\* line 50-59: the call; no statement of the function assigns into data, its
\* dicts or their lists
FldCall ==
    /\ fld_pc = "call"
    /\ fld_once' = filter_list_of_dicts(fld_data)
    /\ fld_pc' = "once"
    /\ UNCHANGED <<notFld, fld_given, fld_data, fld_twice>>

\* the call on the list the first call returned
FldCallAgain ==
    /\ fld_pc = "once"
    /\ fld_twice' = filter_list_of_dicts(fld_once)
    /\ fld_pc' = "twice"
    /\ UNCHANGED <<notFld, fld_given, fld_data, fld_once>>

\* the selection taken from the last valid index to the first
CommitsValidReversed(c0, vi) == [k \in 1..Len(vi) |-> c0[vi[Len(vi) + 1 - k]]]

\* line 103: commits_valid
CommitsValid(c0, vi) == Pick(c0, vi)

\* line 104: task1_valid
Task1Valid(t1, vi) == Pick(t1, vi)

\* line 105-111
Task2Filtered(t2, vi) ==
    filter_list_of_dicts(
        [k \in 1..Len(vi) |-> transform_str_to_list(t2[vi[k]][Len(t2[vi[k]]) - 1])])

NoFiles == [task2 |-> NoFile, task1 |-> NoFile, commits |-> NoFile]

IdleS22 ==
    /\ valid_indices = <<>>
    /\ commits_valid = <<>>
    /\ task1_valid = <<>>
    /\ task2_filtered = <<>>
    /\ s22_files = NoFiles

InitS22 ==
    /\ s22_pc = "load"
    /\ \E n \in 0..MaxCommits : commits0 = [i \in 1..n |-> [repo |-> "r", sha |-> i]]
    /\ \E n \in 0..MaxCommits : task1 = [i \in 1..n |-> [task1_of |-> i]]
    /\ task2 \in SeqsUpTo(Task2Responses, MaxCommits)
    /\ IdleS22

OffS22 ==
    /\ s22_pc = "off"
    /\ commits0 = <<>>
    /\ task1 = <<>>
    /\ task2 = <<>>
    /\ IdleS22

\* line 82-100
S22Validate ==
    /\ s22_pc = "load"
    /\ valid_indices' = ValidIndices(task2)
    /\ s22_pc' = "select"
    /\ UNCHANGED <<notS22, commits0, task1, task2, commits_valid, task1_valid,
                   task2_filtered, s22_files>>

\* line 103-111; an index beyond a list raises IndexError
S22Select ==
    /\ s22_pc = "select"
    /\ IF \E k \in 1..Len(valid_indices) :
             valid_indices[k] > Len(commits0) \/ valid_indices[k] > Len(task1)
       THEN /\ s22_pc' = "IndexError"
            /\ UNCHANGED <<commits_valid, task1_valid, task2_filtered>>
       ELSE /\ s22_pc' = "dump2"
            /\ commits_valid' = CommitsValid(commits0, valid_indices)
            /\ task1_valid' = Task1Valid(task1, valid_indices)
            /\ task2_filtered' = Task2Filtered(task2, valid_indices)
    /\ UNCHANGED <<notS22, commits0, task1, task2, valid_indices, s22_files>>

\* line 114
S22DumpTask2 ==
    /\ s22_pc = "dump2"
    /\ s22_files' = [s22_files EXCEPT !.task2 = File(task2_filtered)]
    /\ s22_pc' = "dump1"
    /\ UNCHANGED <<notS22, commits0, task1, task2, valid_indices, commits_valid,
                   task1_valid, task2_filtered>>

\* line 115
S22DumpTask1 ==
    /\ s22_pc = "dump1"
    /\ s22_files' = [s22_files EXCEPT !.task1 = File(task1_valid)]
    /\ s22_pc' = "dump0"
    /\ UNCHANGED <<notS22, commits0, task1, task2, valid_indices, commits_valid,
                   task1_valid, task2_filtered>>

\* line 116
S22DumpCommits ==
    /\ s22_pc = "dump0"
    /\ s22_files' = [s22_files EXCEPT !.commits = File(commits_valid)]
    /\ s22_pc' = "done"
    /\ UNCHANGED <<notS22, commits0, task1, task2, valid_indices, commits_valid,
                   task1_valid, task2_filtered>>

(***************************************************************************)
(* s2_1_analyze_undefined_elements.py                                      *)
(*                                                                         *)
(* A prompt records its task and the entry whose fields it was formatted   *)
(* from; a reply records the prompt it answers and its stripped text.      *)
(***************************************************************************)
NoElements == [reply_to |-> 0, task |-> 0, text |-> ""]

\* line 147-150: the Task-1 prompt of an entry
Task1Prompt(entry) == [task |-> 1, about |-> entry.sha, elements |-> NoElements]

\* line 160-163: the Task-2 prompt of an entry, embedding a Task-1 output
Task2Prompt(entry, output) == [task |-> 2, about |-> entry.sha, elements |-> output]

\* line 146-152
Task1Prompts(commits) == [i \in 1..Len(commits) |-> Task1Prompt(commits[i])]

\* line 159-165: task1_output[i] beside the i-th entry
Task2Prompts(commits, t1out) ==
    [i \in 1..Len(commits) |-> Task2Prompt(commits[i], t1out[i])]

\* out.outputs[0].text.strip(): what the oracle answers to a prompt, possibly
\* nothing
ReplyTexts == {"", "text"}
Reply(prompt, text) == [reply_to |-> prompt.about, task |-> prompt.task, text |-> text]

\* a list of replies taken in the order the requests completed
GenerateInCompletionOrder(outs, completed) == ImapUnordered(outs, completed)

\* llm.generate(prompts, sampling_params): one blocking call that returns
\* the replies in the order of the prompts
llm_generate(outs, completed) == [k \in 1..Len(completed) |-> outs[k]]

NoFiles21 == [task1 |-> NoFile, task2 |-> NoFile]

IdleS21 ==
    /\ llm_inits = 0
    /\ s21_batches = <<>>
    /\ s21_outs = <<>>
    /\ s21_completed = <<>>
    /\ task1_prompts = <<>>
    /\ task1_output = <<>>
    /\ task2_prompts = <<>>
    /\ task2_output = <<>>
    /\ s21_files = NoFiles21

\* line 126-128: main is started on the s2_0 snapshot
InitS21 ==
    /\ s21_pc = "start"
    /\ \E S \in SUBSET (1..MaxCommits) :
          s21_commits = SelectSeq([i \in 1..MaxCommits |-> [repo |-> "r", sha |-> i]],
                                  LAMBDA e : e.sha \in S)
    /\ IdleS21

OffS21 ==
    /\ s21_pc = "off"
    /\ s21_commits = <<>>
    /\ IdleS21

\* line 134-142: Initialize LLM once
S21Init ==
    /\ s21_pc = "start"
    /\ llm_inits' = llm_inits + 1
    /\ s21_pc' = "task1"
    /\ UNCHANGED <<notS21, s21_commits, s21_batches, s21_outs, s21_completed,
                   task1_prompts, task1_output, task2_prompts, task2_output, s21_files>>

\* line 146-154: the Task-1 prompts are built and handed to llm.generate
S21Task1Issue ==
    /\ s21_pc = "task1"
    /\ task1_prompts' = Task1Prompts(s21_commits)
    /\ s21_batches' = Append(s21_batches, Task1Prompts(s21_commits))
    /\ s21_outs' = [i \in 1..Len(s21_commits) |-> NoElements]
    /\ s21_completed' = <<>>
    /\ s21_pc' = "gen1"
    /\ UNCHANGED <<notS21, s21_commits, llm_inits, task1_output, task2_prompts,
                   task2_output, s21_files>>

\* inside llm.generate: the oracle finishes one request of the batch
S21RequestDone ==
    /\ s21_pc \in {"gen1", "gen2"}
    /\ \E i \in 1..Len(s21_outs) :
          /\ i \notin Range(s21_completed)
          /\ \E text \in ReplyTexts :
                s21_outs' = [s21_outs EXCEPT
                               ![i] = Reply(s21_batches[Len(s21_batches)][i], text)]
          /\ s21_completed' = Append(s21_completed, i)
    /\ UNCHANGED <<notS21, s21_pc, s21_commits, llm_inits, s21_batches, task1_prompts,
                   task1_output, task2_prompts, task2_output, s21_files>>

\* line 154-155: llm.generate returns the Task-1 batch
S21Task1Return ==
    /\ s21_pc = "gen1"
    /\ Len(s21_completed) = Len(s21_outs)
    /\ task1_output' = llm_generate(s21_outs, s21_completed)
    /\ s21_pc' = "task2"
    /\ UNCHANGED <<notS21, s21_commits, llm_inits, s21_batches, s21_outs, s21_completed,
                   task1_prompts, task2_prompts, task2_output, s21_files>>

\* line 159-167: the Task-2 prompts are built and handed to llm.generate
S21Task2Issue ==
    /\ s21_pc = "task2"
    /\ task2_prompts' = Task2Prompts(s21_commits, task1_output)
    /\ s21_batches' = Append(s21_batches, Task2Prompts(s21_commits, task1_output))
    /\ s21_outs' = [i \in 1..Len(s21_commits) |-> NoElements]
    /\ s21_completed' = <<>>
    /\ s21_pc' = "gen2"
    /\ UNCHANGED <<notS21, s21_commits, llm_inits, task1_prompts, task1_output,
                   task2_output, s21_files>>

\* line 167-168: llm.generate returns the Task-2 batch
S21Task2Return ==
    /\ s21_pc = "gen2"
    /\ Len(s21_completed) = Len(s21_outs)
    /\ task2_output' = llm_generate(s21_outs, s21_completed)
    /\ s21_pc' = "dump1"
    /\ UNCHANGED <<notS21, s21_commits, llm_inits, s21_batches, s21_outs, s21_completed,
                   task1_prompts, task1_output, task2_prompts, s21_files>>

\* line 171-172
S21DumpTask1 ==
    /\ s21_pc = "dump1"
    /\ s21_files' = [s21_files EXCEPT !.task1 = File(task1_output)]
    /\ s21_pc' = "dump2"
    /\ UNCHANGED <<notS21, s21_commits, llm_inits, s21_batches, s21_outs, s21_completed,
                   task1_prompts, task1_output, task2_prompts, task2_output>>

\* line 173-174
S21DumpTask2 ==
    /\ s21_pc = "dump2"
    /\ s21_files' = [s21_files EXCEPT !.task2 = File(task2_output)]
    /\ s21_pc' = "done"
    /\ UNCHANGED <<notS21, s21_commits, llm_inits, s21_batches, s21_outs, s21_completed,
                   task1_prompts, task1_output, task2_prompts, task2_output>>

(***************************************************************************)
(* Specifications: one per stage, and one of the stages side by side.      *)
(***************************************************************************)
NextS02 == S02Length \/ S02WorkerDone \/ S02Gates
NextHarv == HarvCheck \/ HarvQuery \/ HarvWorkerDone \/ HarvExtend \/ HarvSave
NextS11F == S11Noop \/ S11SingleBlock \/ S11SizeDeletion \/ S11Date
NextS11 == S11Load \/ NextS11F \/ S11Save
NextS20 == S20Mask \/ S20WorkerDone \/ S20Save
NextS22 == S22Validate \/ S22Select \/ S22DumpTask2 \/ S22DumpTask1 \/ S22DumpCommits

InitSpecS02 == InitS02 /\ OffS03 /\ OffHarv /\ OffS11 /\ OffS20 /\ OffS22 /\ OffFld /\ OffS21
SpecS02 == InitSpecS02 /\ [][NextS02]_vars

InitSpecHarv == OffS02 /\ OffS03 /\ InitHarv /\ OffS11 /\ OffS20 /\ OffS22 /\ OffFld /\ OffS21
SpecHarv == InitSpecHarv /\ [][NextHarv]_vars

InitSpecS11 == OffS02 /\ OffS03 /\ OffHarv /\ InitS11 /\ OffS20 /\ OffS22 /\ OffFld /\ OffS21
SpecS11 == InitSpecS11 /\ [][NextS11]_vars

InitSpecS11F == OffS02 /\ OffS03 /\ OffHarv /\ InitS11F /\ OffS20 /\ OffS22 /\ OffFld /\ OffS21
SpecS11F == InitSpecS11F /\ [][NextS11F]_vars

InitSpecS20 == OffS02 /\ OffS03 /\ OffHarv /\ OffS11 /\ InitS20 /\ OffS22 /\ OffFld /\ OffS21
SpecS20 == InitSpecS20 /\ [][NextS20]_vars

InitSpecS22 == OffS02 /\ OffS03 /\ OffHarv /\ OffS11 /\ OffS20 /\ InitS22 /\ OffFld /\ OffS21
SpecS22 == InitSpecS22 /\ [][NextS22]_vars

\* s0_2 main on its own
NextS02M == S02Load \/ NextS02 \/ S02Save
InitSpecS02M == InitS02M /\ OffS03 /\ OffHarv /\ OffS11 /\ OffS20 /\ OffS22 /\ OffFld /\ OffS21
SpecS02M == InitSpecS02M /\ [][NextS02M]_vars

\* the LLM analysis script on its own
NextS03 == S03Prompts \/ S03Generate
InitSpecS03 == OffS02 /\ InitS03 /\ OffHarv /\ OffS11 /\ OffS20 /\ OffS22 /\ OffFld /\ OffS21
SpecS03 == InitSpecS03 /\ [][NextS03]_vars

\* the head of the funnel: s0_2 main, then the LLM script on its snapshot,
\* then s1_1 main up to its call of s1_filter_commit_list
NextFunnel == NextS02M \/ S03Open \/ NextS03 \/ S11Open \/ S11Load
SpecFunnel == InitSpecS02M /\ [][NextFunnel]_vars

\* the stages that map over a worker pool
InitSpecPools == InitSpecS02 \/ InitSpecHarv \/ InitSpecS20
NextPools == NextS02 \/ NextHarv \/ NextS20
SpecPools == InitSpecPools /\ [][NextPools]_vars

\* filter_list_of_dicts called on its own
NextFld == FldCall \/ FldCallAgain
InitSpecFld == OffS02 /\ OffS03 /\ OffHarv /\ OffS11 /\ OffS20 /\ OffS22 /\ InitFld /\ OffS21
SpecFld == InitSpecFld /\ [][NextFld]_vars

\* the LLM script on its own, then s1_1 main up to its call of
\* s1_filter_commit_list
NextOracle == NextS03 \/ S11Open \/ S11Load
SpecOracle == InitSpecS03 /\ [][NextOracle]_vars

\* s2_1 main on its own
NextS21 ==
    \/ S21Init \/ S21Task1Issue \/ S21RequestDone \/ S21Task1Return
    \/ S21Task2Issue \/ S21Task2Return \/ S21DumpTask1 \/ S21DumpTask2
InitSpecS21 ==
    OffS02 /\ OffS03 /\ OffHarv /\ OffS11 /\ OffS20 /\ OffS22 /\ OffFld /\ InitS21
SpecS21 == InitSpecS21 /\ [][NextS21]_vars

\* the stages that select and enrich records, side by side
InitSpecEnrich == InitSpecS02 \/ InitSpecS11F \/ InitSpecS22
NextEnrich == NextS02 \/ NextS11F \/ NextS22
SpecEnrich == InitSpecEnrich /\ [][NextEnrich]_vars

\* every stage side by side; the LLM script runs here on the snapshot of
\* s0_2 main (SpecOracle runs it on the datasets of its docstring)
Init == InitSpecS02 \/ InitSpecS02M \/ InitSpecHarv \/ InitSpecS11 \/ InitSpecS11F \/ InitSpecS20
        \/ InitSpecS22 \/ InitSpecFld \/ InitSpecS21
Next == NextFunnel \/ NextHarv \/ NextS11 \/ NextS20 \/ NextS22 \/ NextFld \/ NextS21
Spec == Init /\ [][Next]_vars


(***************************************************************************)
(* Properties of s1_filter_commit_list                                     *)
(***************************************************************************)
S11NoopEnded == s11_pc \notin {"off", "load", "AssertionError", "call"}
S11DateEnded == s11_pc \in {"returned", "ValueError", "saved"}

\* a diff block whose function, the one enclosing that block, has the same
\* text before and after the commit
HasNoopBlock(entry) ==
    \E k \in 1..Len(split_diff_by_blocks(entry.diff)) :
        entry.prefix_content[split_diff_by_blocks(entry.diff)[k].fn]
            = entry.fix_content[split_diff_by_blocks(entry.diff)[k].fn]

\* C1: once remove_noop_commits has run on the enriched commit list, its
\* output is the input without the commits that have a diff block whose
\* function text is equal before and after, the others kept in input order
\* and unchanged.
C1_NoopDetector ==
    S11NoopEnded =>
        /\ s11_pc # "IndexError"
        /\ after_noop = SelectSeq(multi_add_prefix_fix_content(yes_commits),
                                  LAMBDA e : ~HasNoopBlock(e))

UnparseableDate(c) == c.diff.date.present /\ ~c.diff.date.parses

\* C2: once the date gate has run, s1_filter_commit_list has returned
\* normally; the commits that reached the gate with an unparseable Date: line
\* are absent from what it returns and the other commits are filtered as if
\* those were not there.
C2_UnparseableDateDropped ==
    S11DateEnded =>
        /\ s11_pc # "ValueError"
        /\ final_commits
             = DateGate(SelectSeq(with_deletions, LAMBDA c : ~UnparseableDate(c)))

\* C3: every commit s1_filter_commit_list returns has a Date: line whose
\* year is below the cutoff; a commit that reached the date gate with a year
\* at or above the cutoff, or with no Date: line, is not in what it returns.
C3_DateCutoff ==
    /\ \A i \in 1..Len(final_commits) :
          /\ final_commits[i].diff.date.present
          /\ final_commits[i].diff.date.year < 2023
    /\ \A i \in 1..Len(with_deletions) :
          (\/ ~with_deletions[i].diff.date.present
           \/ with_deletions[i].diff.date.year >= 2023)
          => \A j \in 1..Len(final_commits) :
                final_commits[j].sha # with_deletions[i].sha

\* the date gate has returned a commit and has dropped one of the cutoff year
C3_Witness ==
    /\ s11_pc = "returned"
    /\ final_commits # <<>>
    /\ \E i \in 1..Len(with_deletions) :
          with_deletions[i].diff.date = Dated(CUTOFF_YEAR)

(***************************************************************************)
(* Properties of s2_0                                                      *)
(***************************************************************************)
\* the mask result of the commit an entry was made from
MaskOf(e) == blank_results[e.sha]

ExactlyOneMask(e) ==
    /\ Count(e.mask_snippet, "<MASK_") = 1
    /\ ~MaskOf(e).empty
    /\ MaskOf(e).found
    /\ MaskOf(e).placeholders = 1

\* C4: every entry handed to the undefined-element extraction, and every
\* entry saved, has a snippet holding the placeholder token exactly once and
\* comes from a commit whose mask result is not empty, was located and holds
\* one placeholder; an entry of any other commit is never saved.
C4_SingleMask ==
    /\ \A i \in 1..Len(single_mask_commits) : ExactlyOneMask(single_mask_commits[i])
    /\ \A i \in 1..Len(s20_saved.data) : ExactlyOneMask(s20_saved.data[i])

\* s2_0 has saved an entry and has dropped one with two placeholders
C4_Witness ==
    /\ s20_pc = "done"
    /\ s20_saved.data # <<>>
    /\ \E i \in 1..Len(masked_commits) :
          Count(masked_commits[i].mask_snippet, MASK_TOKEN) = 2

(***************************************************************************)
(* Properties of the deletion gate and of the single-block gate            *)
(***************************************************************************)
\* the hunk of the retained function block: the first hunk with a diff block
\* in the function the entry was reduced to
RetainedHunk(e) ==
    LET touches(h) == \E b \in 1..Len(e.diff.hunks[h]) :
                          e.diff.hunks[h][b].fn = e.blocks[1]
        first == CHOOSE h \in 1..Len(e.diff.hunks) :
                    touches(h) /\ \A g \in 1..(h - 1) : ~touches(g)
    IN  e.diff.hunks[first]

RemovesLine(hunk) == \E b \in 1..Len(hunk) : hunk[b].removed

\* C5: every commit that passes the deletion gate, and so every commit
\* s1_filter_commit_list returns, removes a line in the hunk of its retained
\* function block.
C5_DeletionGate ==
    /\ \A i \in 1..Len(with_deletions) : RemovesLine(RetainedHunk(with_deletions[i]))
    /\ \A i \in 1..Len(final_commits) : RemovesLine(RetainedHunk(final_commits[i]))

(***************************************************************************)
(* Properties of filter_commit_list                                        *)
(***************************************************************************)
OneChangedFile(rec) ==
    /\ Len(get_change_file_name_by_text(rec.diff)) = 1
    /\ rec.changed_file = get_change_file_name_by_text(rec.diff)[1]

\* C6: for every record that passes the single-file filter, and so for every
\* record filter_commit_list returns, the changed files of the record's diff
\* are exactly one path, and the record's fourth field is that path.
C6_SingleFileGate ==
    /\ \A i \in 1..Len(single_file_commits) : OneChangedFile(single_file_commits[i])
    /\ \A i \in 1..Len(s02_returned) : OneChangedFile(s02_returned[i])

\* filter_commit_list has returned a record and has dropped a two-file commit
C6_Witness ==
    /\ s02_pc = "done"
    /\ s02_returned # <<>>
    /\ \E i \in 1..Len(short_commits) : Len(changed_files[i]) = 2

\* the functions enclosing the diff blocks of a commit
DistinctFns(e) ==
    UNION {{hunk[b].fn : b \in 1..Len(hunk)} : hunk \in Range(e.diff.hunks)}

ShaOf(cl) == [i \in 1..Len(cl) |-> cl[i].sha]

S11BlockEnded == s11_pc \in {"block", "gates", "returned", "ValueError", "saved"}

FenceMarkers(txt) == Len(txt) - 1

\* a response that is empty, has no pair of fence markers around a content,
\* or whose fenced content does not parse
Rejected(txt) ==
    \/ txt = <<>>
    \/ FenceMarkers(txt) < 2
    \/ ~txt[Len(txt) - 1].wellformed

\* the indices of the responses that are not rejected, ascending
Accepted(t2) == IndicesFrom(1, Len(t2), LAMBDA i : ~Rejected(t2[i]))

S22Selected == s22_pc \in {"dump2", "dump1", "dump0", "done"}

Aligned11 ==
    (s11_main /\ Len(input_commits) # Len(llm_results))
        => s11_pc \in {"load", "AssertionError"} /\ s11_saved \in PriorS11Snapshots

\* s2_0: commits against mask results
Aligned20 ==
    Len(commits_updated) # Len(blank_results)
        => s20_pc \in {"load", "AssertionError"} /\ ~s20_saved.written

\* s2_2: commits against Task-1 outputs against Task-2 outputs
Aligned22 ==
    (Len(commits0) # Len(task1) \/ Len(task1) # Len(task2))
        => /\ s22_pc \in {"load", "select", "AssertionError"}
           /\ s22_files = NoFiles

\* C9: in each of s1_1, s2_0 and s2_2, when the loaded collections differ in
\* length the stage stops by an assertion and writes no output; it never goes
\* on with the shorter collection, by truncating to it or indexing within it.
C9_AlignmentError == Aligned11 /\ Aligned20 /\ Aligned22

\* C10: each worker-pool map returns, at position i, the result for input i,
\* whatever the order in which the workers completed: the changed files of
\* s0_2, the git show results of the harvester, the enriched entries of s2_0.
C10_OrderedPoolMap ==
    /\ s02_pc = "done" =>
          /\ Len(changed_files) = Len(short_commits)
          /\ \A i \in 1..Len(short_commits) :
                changed_files[i] = get_change_file_name_by_text(short_commits[i].diff)
    /\ (harv_pc = "loop" /\ kw > 1) =>
          /\ Len(all_commit_info) >= Len(harv_tasks)
          /\ \A i \in 1..Len(harv_tasks) :
                /\ all_commit_info[Len(all_commit_info) - Len(harv_tasks) + i]
                     = harv_outs[i]
                /\ harv_outs[i].sha = harv_tasks[i].sha
    /\ s20_pc = "done" =>
          s20_saved.data
            = FinalEntries([i \in 1..Len(single_mask_commits) |->
                              get_undefined_element_to_list(single_mask_commits[i])])

\* the second of two tasks completed first, the two results differ, and the
\* list has been returned
C10_Witness ==
    /\ s02_pc = "done"
    /\ Len(short_commits) = 2
    /\ s02_completed = <<2, 1>>
    /\ changed_files[1] # changed_files[2]

(***************************************************************************)
(* Properties of the head of the funnel                                    *)
(***************************************************************************)
\* the commits of the s0_0 snapshot whose diff touches no file or several
NotSingleFile ==
    {s00_snapshot[i].sha : i \in
        {j \in 1..Len(s00_snapshot) :
            Len(get_change_file_name_by_text(s00_snapshot[j].diff)) # 1}}

ShasIn(cl) == {cl[i].sha : i \in 1..Len(cl)}

\* C11: a commit whose diff touches two files, or none, is in nothing that
\* comes after the single-file filter: not in the list filter_commit_list
\* returns nor in the s0_2 snapshot, not in the dataset or the prompts of the
\* LLM script, not in the commits s1_1 loads nor in those it hands to
\* s1_filter_commit_list.
C11_GateShortCircuit ==
    \A sha \in NotSingleFile :
        /\ sha \notin ShasIn(single_file_commits)
        /\ sha \notin ShasIn(s02_returned)
        /\ sha \notin ShasIn(s02_saved.data)
        /\ sha \notin ShasIn(input_dataset)
        /\ sha \notin {batch_prompts[k].prompt_of : k \in 1..Len(batch_prompts)}
        /\ sha \notin ShasIn(input_commits)
        /\ sha \notin ShasIn(yes_commits)

\* a two-file commit has reached the single-file filter, the snapshot was
\* written with another commit in it, and the LLM script has started on it
C11_Witness ==
    /\ s02_pc = "saved"
    /\ s02_saved.data # <<>>
    /\ \E i \in 1..Len(short_commits) : Len(changed_files[i]) = 2
    /\ s03_pc # "off"

(***************************************************************************)
(* Properties of the undefined-element lists                               *)
(***************************************************************************)
\* an s2_2 entry all of whose groups are empty
AllGroupsEmpty(entry) == \A k \in DOMAIN entry : entry[k] = ListValue(<<>>)

\* C12: no entry of the s2_0 snapshot has both its prefix and its fix
\* undefined-element list empty, and no entry of the Task-2 collection s2_2
\* saves has all its groups empty after the blacklist and short-identifier
\* filter.
C12_EmptyContextDropped ==
    /\ \A i \in 1..Len(s20_saved.data) :
          \/ s20_saved.data[i].undefined_prefix # {}
          \/ s20_saved.data[i].undefined_fix # {}
    /\ \A k \in 1..Len(s22_files.task2.data) :
          ~AllGroupsEmpty(s22_files.task2.data[k])

(***************************************************************************)
(* Properties of re-runs                                                   *)
(***************************************************************************)
\* the harvester does nothing once its snapshot exists
HarvNoop ==
    output_exists =>
        UNCHANGED <<output_exists, harv_saved, kw, harv_tasks, harv_outs,
                    harv_completed, all_commit_info>>

\* s0_2 main does nothing once its snapshot exists
S02Noop ==
    s02_saved.written =>
        UNCHANGED <<s02_saved, commit_list, short_commits, s02_completed,
                    changed_files, single_file_commits, s02_returned>>

\* s1_1 main does nothing once its snapshot exists
S11MainNoop ==
    s11_saved.written =>
        UNCHANGED <<s11_saved, yes_commits, after_noop, single_block,
                    small_prefix_commits, with_deletions, final_commits>>

\* C13: in every stage, no step taken while the stage's output snapshot
\* exists changes the snapshot or computes anything: no query, no filtering,
\* no write.
C13_Restartable == [][HarvNoop /\ S02Noop /\ S11MainNoop]_vars

(***************************************************************************)
(* Properties of the harvester                                             *)
(***************************************************************************)
\* the triples the git show calls returned, over all keywords
Retrieved == Range(all_commit_info)

\* C14: the saved seed collection holds no (repo, sha, content) triple
\* twice and no triple with empty content, and as a set it is the set of
\* the non-empty triples retrieved over all keywords.
C14_HarvesterDedup ==
    harv_pc = "done" =>
        LET saved == harv_saved.data IN
        /\ \A i, j \in 1..Len(saved) : saved[i] = saved[j] => i = j
        /\ \A i \in 1..Len(saved) : saved[i].content # ""
        /\ Range(saved) = {t \in Retrieved : t.content # ""}

\* a triple was retrieved for both keywords, another came back empty
C14_Witness ==
    /\ harv_pc = "done"
    /\ \E i, j \in 1..Len(all_commit_info) :
          i # j /\ all_commit_info[i] = all_commit_info[j]
                /\ all_commit_info[i].content # ""
    /\ \E i \in 1..Len(all_commit_info) : all_commit_info[i].content = ""
    /\ Len(harv_saved.data) = 2

\* the history query of some keyword printed nothing
SomeEmptyQuery == \E k \in 1..Len(git_log) : git_log[k] = <<>>

\* the commits of the saved seed collection
SavedShas == {harv_saved.data[i].sha : i \in 1..Len(harv_saved.data)}

\* the commits matched by keyword k whose text was retrieved
MatchedBy(k) ==
    {git_log[k][i].sha : i \in 1..Len(git_log[k])}
        \cap {t.sha : t \in {u \in Retrieved : u.content # ""}}

UnderTokenCeiling(c) == c.diff.tok < max_token_length
TouchesOneFile(c) == Len(c.diff.headers) = 1
AllowedExtension(c) ==
    \E x \in C_EXTENSIONS : EndsWith(c.diff.headers[1], x)

PassesAllGates(c) ==
    /\ UnderTokenCeiling(c)
    /\ TouchesOneFile(c)
    /\ only_c => AllowedExtension(c)

\* the first three fields of the returned records
InputFields(cl) ==
    [i \in 1..Len(cl) |-> [repo |-> cl[i].repo, sha |-> cl[i].sha, diff |-> cl[i].diff]]

RECURSIVE SubSeqFrom(_, _, _, _)
SubSeqFrom(a, b, i, j) ==
    IF i > Len(a) THEN TRUE
    ELSE IF j > Len(b) THEN FALSE
    ELSE IF a[i] = b[j] THEN SubSeqFrom(a, b, i + 1, j + 1)
    ELSE SubSeqFrom(a, b, i, j + 1)

IsSubSeq(a, b) == SubSeqFrom(a, b, 1, 1)

\* every record of cl has the fields of an input record and changed_file
AppendsChangedFile(cl) ==
    \A i \in 1..Len(cl) : DOMAIN cl[i] = {"repo", "sha", "diff", "changed_file"}

S11NoopReturned == s11_pc \in {"noop", "block", "gates", "returned", "ValueError"}

\* C18: remove_noop_commits applied to the list it has returned raises
\* nothing and returns that list unchanged.
C18_NoopIdempotent ==
    S11NoopReturned =>
        /\ ~NoopRaises(after_noop)
        /\ remove_noop_commits(after_noop) = after_noop

\* remove_noop_commits has dropped a commit and has kept one
C18_Witness ==
    /\ s11_pc = "noop"
    /\ after_noop # <<>>
    /\ Len(after_noop) < Len(yes_commits)

\* a commit whose diff is one hunk of one block that adds and removes
\* nothing, inside function 1
AddsOnly(c) == c.diff.hunks = HunksOneAdd

\* the text of that function is the same before and after the commit
FunctionTextSame(c) == c.vcs.prefix[1] = c.vcs.fix[1]

\* C19: once remove_noop_commits has returned, a commit that only adds
\* inside a function is missing from its output exactly when the function's
\* text is identical before and after; when the text differs the commit
\* passes the single-block step, reaches the deletion gate when its
\* function is under the size ceiling, and is not in the deletion gate's
\* output.
C19_NoopDeletionIndependent ==
    \A i \in 1..Len(yes_commits) :
        AddsOnly(yes_commits[i]) =>
            /\ S11NoopReturned =>
                  (i \notin ShasIn(after_noop) <=> FunctionTextSame(yes_commits[i]))
            /\ (s11_pc \in {"gates", "returned", "ValueError"}
                    /\ ~FunctionTextSame(yes_commits[i])) =>
                  /\ i \in ShasIn(single_block)
                  /\ i \in ShasIn(small_prefix_commits)
                        <=> yes_commits[i].vcs.prefix[1].tok < MAX_PREFIX_TOKENS
                  /\ i \notin ShasIn(with_deletions)

\* one add-only commit was dropped as a no-op, another passed the detector
\* and the size gate and was dropped by the deletion gate
C19_Witness ==
    /\ s11_pc = "gates"
    /\ Len(yes_commits) = 2
    /\ AddsOnly(yes_commits[1]) /\ FunctionTextSame(yes_commits[1])
    /\ AddsOnly(yes_commits[2]) /\ ~FunctionTextSame(yes_commits[2])
    /\ ShasIn(after_noop) = {2}
    /\ ShasIn(small_prefix_commits) = {2}
    /\ with_deletions = <<>>

(***************************************************************************)
(* Properties of filter_list_of_dicts                                      *)
(***************************************************************************)
\* the names of a list that are longer than two characters and not
\* blacklisted, in the list's order
KeptNames(items) ==
    SelectSeq(items, LAMBDA item : Len(item) > 2 /\ item \notin COMMON_BLACKLIST)

\* out is what the filter owes for the list of dicts in
FilteredAsClaimed(in, out) ==
    /\ Len(out) = Len(in)
    /\ \A i \in 1..Len(in) :
          /\ DOMAIN out[i] = DOMAIN in[i]
          /\ \A k \in DOMAIN in[i] :
                IF in[i][k].is_list
                THEN out[i][k] = ListValue(KeptNames(in[i][k].items))
                ELSE out[i][k] = in[i][k]

\* C20: what filter_list_of_dicts returns has the length of its input and
\* the keys of each entry; each list value holds the input's names of more
\* than two characters that are not blacklisted, in order; other values are
\* as in the input; the caller's list is as it was; and filtering the
\* result again returns the result.
C20_BlacklistFilter ==
    /\ fld_pc \in {"once", "twice"} =>
          /\ FilteredAsClaimed(fld_given, fld_once)
          /\ fld_data = fld_given
    /\ fld_pc = "twice" => fld_twice = fld_once

\* the filter has run twice on a dict with a passed-through value beside a
\* list from which it removed a short and a blacklisted name, and on a dict
\* whose list it left alone
C20_Witness ==
    /\ fld_pc = "twice"
    /\ Len(fld_given) = 2
    /\ fld_given[1] = [Functions |-> ListValue(<<Id_fd, Id_memcpy>>),
                       note |-> OtherValue(Id_fd)]
    /\ fld_once[1] = [Functions |-> ListValue(<<>>), note |-> OtherValue(Id_fd)]
    /\ fld_given[2] = [Functions |-> ListValue(<<Id_buf>>)]
    /\ fld_once[2] = fld_given[2]

(***************************************************************************)
(* Properties of the oracle admission in s1_1 main                         *)
(***************************************************************************)
\* the response's answer line: the token that follows "Answer:"
AnswersYes(res) ==
    \E k \in 1..Len(res) - 1 : res[k] = "Answer:" /\ res[k + 1] = "yes"

S11Selected == s11_main /\ s11_pc \notin {"off", "load", "AssertionError"}

\* C21: every commit s1_1 main hands to s1_filter_commit_list has, at its
\* index, an oracle response whose answer line says yes; a commit whose
\* response answers no or cannot decide is not handed over, whatever else
\* the response holds.
C21_OracleAdmission ==
    S11Selected =>
        \A k \in 1..Len(yes_commits) : AnswersYes(llm_results[yes_commits[k].sha])

(***************************************************************************)
(* Properties of s2_1                                                      *)
(***************************************************************************)
\* the requests of a task for an entry, over all batches issued
Requests(task, sha) ==
    {<<b, i>> \in (1..Len(s21_batches)) \X (1..MaxCommits) :
        /\ i <= Len(s21_batches[b])
        /\ s21_batches[b][i].task = task
        /\ s21_batches[b][i].about = sha}

Task1Returned == s21_pc \in {"task2", "gen2", "dump1", "dump2", "done"}
Task2Returned == s21_pc \in {"dump1", "dump2", "done"}

\* C22: the oracle is constructed once; each task goes out as one batch;
\* Task-2 prompts exist only once the whole Task-1 batch has returned, and
\* the i-th one embeds the Task-1 reply to the i-th entry's prompt; each
\* entry has at most one request per task, exactly one once the task's
\* batch is out; no output file is written before both batches returned.
C22_BatchOracleCalls ==
    /\ llm_inits <= 1
    /\ s21_batches # <<>> => llm_inits = 1
    /\ Len(s21_batches) <= 2
    /\ \A b \in 1..Len(s21_batches) :
          /\ Len(s21_batches[b]) = Len(s21_commits)
          /\ \A i \in 1..Len(s21_batches[b]) : s21_batches[b][i].task = b
    /\ (task2_prompts # <<>> \/ Len(s21_batches) = 2) =>
          /\ Task1Returned
          /\ Len(task1_output) = Len(s21_commits)
    /\ \A i \in 1..Len(task2_prompts) :
          /\ task2_prompts[i].about = s21_commits[i].sha
          /\ task2_prompts[i].elements.task = 1
          /\ task2_prompts[i].elements.reply_to = s21_commits[i].sha
          /\ task2_prompts[i].elements = task1_output[i]
    /\ \A i \in 1..Len(s21_commits) :
          /\ Cardinality(Requests(1, s21_commits[i].sha))
                = IF s21_pc \in {"start", "task1"} THEN 0 ELSE 1
          /\ Cardinality(Requests(2, s21_commits[i].sha))
                = IF Task1Returned /\ s21_pc # "task2" THEN 1 ELSE 0
    /\ (s21_files.task1.written \/ s21_files.task2.written) =>
          /\ Task2Returned
          /\ Len(task2_output) = Len(s21_commits)

\* both files are written for two entries whose last batch completed
\* in reverse order, the second entry's reply being empty
C22_Witness ==
    /\ s21_pc = "done"
    /\ Len(s21_commits) = 2
    /\ s21_files.task1.data[1].text = "text"
    /\ s21_files.task1.data[2].text = ""
    /\ task2_prompts[1].elements.text = "text"
    /\ s21_completed = <<2, 1>>
    /\ s21_files.task2.written

(***************************************************************************)
(* Properties of the block loop of remove_noop_commits                     *)
(***************************************************************************)
\* the hunk that holds the i-th diff block of the hunks, blocks counted in
\* text order over all hunks
RECURSIVE HunkIndexOf(_, _)
HunkIndexOf(hunks, i) ==
    IF i <= Len(Head(hunks)) THEN 1
    ELSE 1 + HunkIndexOf(Tail(hunks), i - Len(Head(hunks)))

\* the i-th block of the entry is looked up in range and under the header of
\* its own hunk
PairedWithOwnHunk(entry, i) ==
    /\ i <= Len(extract_hunks(entry.diff))
    /\ i = HunkIndexOf(entry.diff.hunks, i)

\* C23: once remove_noop_commits has run, no lookup hunk_headers[idx] was
\* out of range, and for every commit it was given and every diff block of
\* the commit, the header at the block's index is the header of the hunk
\* that holds the block, also where a hunk holds several blocks.
C23_BlockHeaderPairing ==
    S11NoopEnded =>
        /\ s11_pc # "IndexError"
        /\ \A k \in 1..Len(yes_commits) :
              \A i \in 1..Len(split_diff_by_blocks(yes_commits[k].diff)) :
                  PairedWithOwnHunk(yes_commits[k], i)

(***************************************************************************)
(* Properties of the results file of the LLM script                        *)
(***************************************************************************)
WholeInput == s03_start = 0 /\ s03_end = Len(input_dataset)

C24_WitnessPartial ==
    /\ s03_saved.written
    /\ s03_saved.name # <<>>
    /\ Len(s03_saved.data) = 1
    /\ Len(input_dataset) = 2

=============================================================================
